---- MODULE Spec2Model ----
(***************************************************************************)
(* State-machine model of cones.py: a two-objective (maximize volume,      *)
(* minimize surface area) mu+lambda evolutionary search over cones         *)
(* [radius, height], with a Pareto-front hall of fame.                     *)
(*                                                                         *)
(* main() drives deap.algorithms.eaMuPlusLambda; the loop, varOr,          *)
(* selNSGA2 and ParetoFront.update are modelled as the library executes    *)
(* them for the arguments main() passes.                                   *)
(*                                                                         *)
(* Individuals are objects: `heap` maps an object id to its decision       *)
(* vector and its cached fitness; the population and the offspring list    *)
(* hold ids, so aliasing (varOr's reproduction appends the parent object   *)
(* itself) and copying (toolbox.clone, deepcopy in the hall of fame) are   *)
(* distinguished.                                                          *)
(*                                                                         *)
(* Objective values are floats in the source.  Volume pi*r^2*(h/3) is      *)
(* kept as r^2*h (scaled by 3/pi) and area pi*r*(r+sqrt(h^2+r^2)) as       *)
(* r*(1000*r + isqrt(10^6*(h^2+r^2))) (scaled by 1000/pi); on the whole    *)
(* domain [1,25]^2 the area order is the order of the exact values, and on *)
(* the attribute values explored here both orders are the float orders.    *)
(* Crowding distances are kept in thousandths, rounded down; this can      *)
(* order two almost equally crowded individuals of the last front          *)
(* differently from the floats, and no property below depends on which of  *)
(* them selection keeps.                                                   *)
(*                                                                         *)
(* LAMBDA is 100 in main; here it is a run parameter of 1..MaxLambda, and  *)
(* a run produces at most MaxVaried offspring in all.                      *)
(***************************************************************************)
EXTENDS Integers, Sequences, FiniteSets, TLC

MAX_ATTRIBUTE_SIZE == 25

\* Bounds of the exploration.
MidAttr == 3        \* random.randint(low, up) is explored on low, MidAttr, up
MaxMU == 2          \* population_size ranges over 1..MaxMU
MaxNGEN == 3        \* max_generations ranges over 0..MaxNGEN
MaxLambda == 2      \* LAMBDA (100 in main) is scaled down to 1..MaxLambda
MaxVaried == 3      \* NGEN * LAMBDA, the offspring of a whole run, is at most this

VARIABLES
    MU,         \* population_size argument of main
    NGEN,       \* max_generations argument of main
    lambda_,    \* LAMBDA, the number of offspring per generation
    pc,         \* position in eaMuPlusLambda
    gen,        \* loop variable of eaMuPlusLambda (0 before the loop)
    ranked,     \* number of generations whose selection has completed
    heap,       \* object id -> [genes, valid, values]
    pop,        \* the population list: sequence of object ids
    offspring,  \* the offspring list of the current generation: object ids
    hof,        \* ParetoFront.items: sequence of [genes, values] copies
    frame       \* locals of the running varOr iteration

vars == <<MU, NGEN, lambda_, pc, gen, ranked, heap, pop, offspring, hof, frame>>

----------------------------------------------------------------------------
\* Fitness

calculate_volume(r, h) == (r * r) * h

RECURSIVE isqrt(_, _, _)
isqrt(n, lo, hi) ==
    IF lo = hi THEN lo
    ELSE LET mid == (lo + hi + 1) \div 2
         IN  IF mid * mid <= n THEN isqrt(n, mid, hi) ELSE isqrt(n, lo, mid - 1)

calculate_surface_area(r, h) ==
    r * (r * 1000 + isqrt(((h * h) + (r * r)) * 1000000, 0, 40000))

evaluate_fitness(individual) ==
    LET r == individual[1]
        h == individual[2]
    IN  <<calculate_volume(r, h), calculate_surface_area(r, h)>>

\* creator.Fitness, weights=(1.0, -1.0): values times weights
wvalues(values) == <<values[1], 0 - values[2]>>

\* Fitness.dominates on weighted values
dominates(a, b) ==
    LET wa == wvalues(a)
        wb == wvalues(b)
    IN  /\ \A i \in 1..2 : ~(wa[i] < wb[i])
        /\ \E i \in 1..2 : wa[i] > wb[i]

\* Fitness comparison operators: lexicographic on weighted values
FitnessLE(a, b) ==
    LET wa == wvalues(a)
        wb == wvalues(b)
    IN  \/ wa[1] < wb[1]
        \/ wa[1] = wb[1] /\ wa[2] <= wb[2]

----------------------------------------------------------------------------
\* Individuals

\* random.randint(low, up), explored on its two ends and one value between
randint(low, up) == {v \in low..up : v = low \/ v = MidAttr \/ v = up}

attr_item == randint(1, MAX_ATTRIBUTE_SIZE)

\* a fresh creator.Individual: two attr_item draws, fitness not yet valid
NewIndividual(r, h) == [genes |-> <<r, h>>, valid |-> FALSE, values |-> <<>>]

keep_fitness_values(obj) == obj

\* del ind.fitness.values
del_fitness_values(obj) == [obj EXCEPT !.valid = FALSE, !.values = <<>>]

CloneId_alias(h, id) == id

\* the object id toolbox.clone(heap object id) returns in heap CloneHeap
CloneId(h, id) == Len(h) + 1

\* the heap after toolbox.clone: a deep copy of the object is added
CloneHeap(h, id) == Append(h, h[id])

crossover_half(ind1, ind2) ==
    <<<<ind2[1], ind1[2]>>, <<ind1[2], ind2[2]>>>>

\* crossover(ind1, ind2), statement by statement
crossover(ind1, ind2) ==
    LET r1 == ind1[1]
        h1 == ind1[2]
        a1 == [ind1 EXCEPT ![1] = ind2[1]]
        b1 == [ind2 EXCEPT ![1] = r1]
        a2 == [a1 EXCEPT ![2] = b1[2]]
        b2 == [b1 EXCEPT ![1] = h1]
    IN  <<a2, b2>>

mutUniformInt_wide(individual, low, up) ==
    {<<r, h>> : r \in {individual[1]} \cup randint(low, up + 1),
                h \in {individual[2]} \cup randint(low, up + 1)}

\* tools.mutUniformInt(individual, low, up, indpb): every gene is kept or,
\* with probability indpb, replaced by randint(low, up)
mutUniformInt(individual, low, up) ==
    {<<r, h>> : r \in {individual[1]} \cup randint(low, up),
                h \in {individual[2]} \cup randint(low, up)}

----------------------------------------------------------------------------
\* tools.ParetoFront (hall of fame); similar = operator.eq on the lists

RECURSIVE CountLE(_, _, _)
\* number of stored fitnesses not greater than `values`: bisect_right on keys
CountLE(items, values, i) ==
    IF i > Len(items) THEN 0
    ELSE (IF FitnessLE(items[i].values, values) THEN 1 ELSE 0)
         + CountLE(items, values, i + 1)

\* HallOfFame.insert: deep copy, placed by bisect_right (items run from the
\* greatest fitness to the least)
hof_insert(items, ind) ==
    LET item == [genes |-> ind.genes, values |-> ind.values]
        i == CountLE(items, item.values, 1)
        at == Len(items) - i
    IN  SubSeq(items, 1, at) \o <<item>> \o SubSeq(items, at + 1, Len(items))

hof_remove_none(items, to_remove, i) == items

RECURSIVE hof_remove(_, _, _)
\* HallOfFame.remove for every index of to_remove
hof_remove(items, to_remove, i) ==
    IF i > Len(items) THEN <<>>
    ELSE (IF i \in to_remove THEN <<>> ELSE <<items[i]>>)
         \o hof_remove(items, to_remove, i + 1)

RECURSIVE hof_scan(_, _, _, _, _)
\* the inner loop of ParetoFront.update over the hall of famers, with its breaks
hof_scan(items, ind, i, dominates_one, to_remove) ==
    IF i > Len(items)
    THEN [is_dominated |-> FALSE, has_twin |-> FALSE, to_remove |-> to_remove]
    ELSE LET hofer == items[i]
         IN  IF ~dominates_one /\ dominates(hofer.values, ind.values)
             THEN [is_dominated |-> TRUE, has_twin |-> FALSE, to_remove |-> to_remove]
             ELSE IF dominates(ind.values, hofer.values)
             THEN hof_scan(items, ind, i + 1, TRUE, to_remove \cup {i})
             ELSE IF ind.values = hofer.values /\ ind.genes = hofer.genes
             THEN [is_dominated |-> FALSE, has_twin |-> TRUE, to_remove |-> to_remove]
             ELSE hof_scan(items, ind, i + 1, dominates_one, to_remove)

hof_offer_always(items, ind) == hof_insert(items, ind)

\* one iteration of ParetoFront.update: offer one individual
hof_offer(items, ind) ==
    LET s == hof_scan(items, ind, 1, FALSE, {})
        kept == hof_remove(items, s.to_remove, 1)
    IN  IF ~s.is_dominated /\ ~s.has_twin THEN hof_insert(kept, ind) ELSE kept

RECURSIVE hof_update(_, _, _)
\* ParetoFront.update(population): the individuals are offered in list order
hof_update(items, population, k) ==
    IF k > Len(population) THEN items
    ELSE hof_update(hof_offer(items, population[k]), population, k + 1)

----------------------------------------------------------------------------
\* tools.selNSGA2 = sortNondominated + assignCrowdingDist + truncation.
\* `vals` is the sequence of fitness values of the pool, by pool position.

RECURSIVE distinct_fits(_, _, _)
\* keys of map_fit_ind in insertion order: the distinct fitnesses of the pool
distinct_fits(vals, i, acc) ==
    IF i > Len(vals) THEN acc
    ELSE distinct_fits(vals, i + 1,
             IF \E j \in 1..Len(acc) : acc[j] = vals[i] THEN acc
             ELSE Append(acc, vals[i]))

RECURSIVE map_fit_ind(_, _, _)
\* the pool positions that carry fitness `fit`, in pool order
map_fit_ind(vals, fit, i) ==
    IF i > Len(vals) THEN <<>>
    ELSE (IF vals[i] = fit THEN <<i>> ELSE <<>>) \o map_fit_ind(vals, fit, i + 1)

RECURSIVE front_individuals(_, _, _, _)
\* fronts[-1].extend(map_fit_ind[fit]) for the fitnesses of a front, in order
front_individuals(vals, F, front, k) ==
    IF k > Len(front) THEN <<>>
    ELSE map_fit_ind(vals, F[front[k]], 1) \o front_individuals(vals, F, front, k + 1)

\* dominating_fits[fit_i] after the pairwise pass over the distinct fitnesses
dominating_fits(F) ==
    [i \in 1..Len(F) |-> Cardinality({j \in 1..Len(F) : dominates(F[j], F[i])})]

RECURSIVE first_front(_, _, _)
first_front(F, counts, i) ==
    IF i > Len(F) THEN <<>>
    ELSE (IF counts[i] = 0 THEN <<i>> ELSE <<>>) \o first_front(F, counts, i + 1)

RECURSIVE front_step(_, _, _, _, _, _)
\* for fit_p in current_front: for fit_d in dominated_fits[fit_p] (these are
\* in increasing index order): decrement, and move to next_front at zero
front_step(F, cur, k, d, counts, nxt) ==
    IF k > Len(cur) THEN [counts |-> counts, next |-> nxt]
    ELSE IF d > Len(F) THEN front_step(F, cur, k + 1, 1, counts, nxt)
    ELSE IF dominates(F[cur[k]], F[d])
    THEN LET c == counts[d] - 1
         IN  front_step(F, cur, k, d + 1, [counts EXCEPT ![d] = c],
                        IF c = 0 THEN Append(nxt, d) ELSE nxt)
    ELSE front_step(F, cur, k, d + 1, counts, nxt)

RECURSIVE fronts_loop(_, _, _, _, _, _, _)
fronts_next(vals, F, st, inds, fronts, pareto_sorted, N) ==
    fronts_loop(vals, F, st.next, st.counts, Append(fronts, inds),
                pareto_sorted + Len(inds), N)

fronts_rank(vals, F, st, fronts, pareto_sorted, N) ==
    fronts_next(vals, F, st, front_individuals(vals, F, st.next, 1),
                fronts, pareto_sorted, N)

\* while pareto_sorted < N: rank the next front
fronts_loop(vals, F, cur, counts, fronts, pareto_sorted, N) ==
    IF ~(pareto_sorted < N) THEN fronts
    ELSE fronts_rank(vals, F, front_step(F, cur, 1, 1, counts, <<>>),
                     fronts, pareto_sorted, N)

\* the rest of sortNondominated once the first front's individuals are known
sort_rest(vals, k, F, counts, current_front, front1) ==
    fronts_loop(vals, F, current_front, counts, <<front1>>, Len(front1),
                IF Len(vals) < k THEN Len(vals) ELSE k)

\* the first front: the fitnesses nothing dominates, then their individuals
sort_first(vals, k, F, counts, current_front) ==
    sort_rest(vals, k, F, counts, current_front,
              front_individuals(vals, F, current_front, 1))

\* the pairwise dominance pass over the distinct fitnesses
sort_fits(vals, k, F, counts) ==
    sort_first(vals, k, F, counts, first_front(F, counts, 1))

\* sortNondominated(individuals, k): the fronts, as sequences of pool positions
sortNondominated(vals, k) ==
    IF k = 0 THEN <<>>
    ELSE sort_fits(vals, k, distinct_fits(vals, 1, <<>>),
                   dominating_fits(distinct_fits(vals, 1, <<>>)))

\* float("inf") in the fixed-point scale of the crowding distances (a finite
\* distance is at most 1000)
Inf == 1000 * 1000

RECURSIVE stable_sort(_, _, _)
\* list.sort / sorted: stable, ascending in key; items[1..i] sorted
stable_sort(items, key, i) ==
    IF i = 0 THEN <<>>
    ELSE LET s == stable_sort(items, key, i - 1)
             x == items[i]
             n == Cardinality({p \in 1..Len(s) : key[s[p]] <= key[x]})
         IN  SubSeq(s, 1, n) \o <<x>> \o SubSeq(s, n + 1, Len(s))

\* one objective's pass of assignCrowdingDist over the sorted `crowd`
crowd_pass(distances, crowd, key) ==
    LET m == Len(crowd)
        d1 == [distances EXCEPT ![crowd[1]] = Inf, ![crowd[m]] = Inf]
        norm == 2 * (key[crowd[m]] - key[crowd[1]])
        at(i) == CHOOSE p \in 1..m : crowd[p] = i
    IN  IF key[crowd[m]] = key[crowd[1]] THEN d1
        ELSE [i \in 1..m |->
                 IF at(i) > 1 /\ at(i) < m /\ d1[i] # Inf
                 THEN d1[i] + (((key[crowd[at(i) + 1]] - key[crowd[at(i) - 1]]) * 1000)
                               \div norm)
                 ELSE d1[i]]

\* assignCrowdingDist(front): the distance computed for every front position
assignCrowdingDist(fvals) ==
    LET m == Len(fvals)
        key1 == [i \in 1..m |-> fvals[i][1]]
        key2 == [i \in 1..m |-> fvals[i][2]]
        crowd0 == [i \in 1..m |-> i]
        crowd1 == stable_sort(crowd0, key1, m)
        dist1 == crowd_pass([i \in 1..m |-> 0], crowd1, key1)
        crowd2 == stable_sort(crowd1, key2, m)
    IN  crowd_pass(dist1, crowd2, key2)

RECURSIVE chain(_, _)
\* list(chain(*pareto_fronts[:-1]))
chain(fronts, i) ==
    IF i >= Len(fronts) THEN <<>> ELSE fronts[i] \o chain(fronts, i + 1)

\* the objects at the given pool positions
pool_objects(ids, positions) == [i \in 1..Len(positions) |-> ids[positions[i]]]

\* the key of sorted(..., key=attrgetter("fitness.crowding_dist"), reverse=True).
\* crowding_dist lives on the fitness object: an object that occurs twice in
\* the front keeps the later assignment
crowding_key(ids, last, distances) ==
    [i \in 1..Len(last) |->
        0 - distances[CHOOSE q \in 1..Len(last) :
                        /\ ids[last[q]] = ids[last[i]]
                        /\ \A q2 \in (q + 1)..Len(last) : ids[last[q2]] # ids[last[i]]]]

\* sorted_front[:k], as pool positions
sel_truncate(last, sorted_front, k) ==
    [i \in 1..(IF k < Len(last) THEN k ELSE Len(last)) |-> last[sorted_front[i]]]

\* the last front, ordered by descending crowding distance and cut to k
sel_last(ids, vals, last, k) ==
    sel_truncate(last,
                 stable_sort([i \in 1..Len(last) |-> i],
                             crowding_key(ids, last,
                                 assignCrowdingDist([i \in 1..Len(last) |-> vals[last[i]]])),
                             Len(last)),
                 k)

sel_extend_all(ids, vals, k, pareto_fronts, chosen) ==
    pool_objects(ids, chosen \o pareto_fronts[Len(pareto_fronts)])

\* k = k - len(chosen); if k > 0: chosen.extend(sorted_front[:k])
sel_extend(ids, vals, k, pareto_fronts, chosen) ==
    IF k - Len(chosen) > 0
    THEN pool_objects(ids, chosen \o sel_last(ids, vals, pareto_fronts[Len(pareto_fronts)],
                                              k - Len(chosen)))
    ELSE pool_objects(ids, chosen)

\* chosen = list(chain(*pareto_fronts[:-1]))
sel_fronts(ids, vals, k, pareto_fronts) ==
    sel_extend(ids, vals, k, pareto_fronts, chain(pareto_fronts, 1))

\* selNSGA2(individuals, k): `ids` are the pooled objects, `vals` their
\* fitness values; the result is the chosen objects, in order
selNSGA2(ids, vals, k) == sel_fronts(ids, vals, k, sortNondominated(vals, k))

----------------------------------------------------------------------------
\* main(population_size, max_generations) and algorithms.eaMuPlusLambda

NoFrame == [op |-> "none", parents |-> <<>>, ind1 |-> 0, ind2 |-> <<>>]

Genomes == {<<r, h>> : r \in attr_item, h \in attr_item}

\* pop = toolbox.population(n=MU); hof = tools.ParetoFront()
Init ==
    /\ MU \in 1..MaxMU
    /\ NGEN \in 0..MaxNGEN
    /\ lambda_ \in 1..MaxLambda
    /\ NGEN * lambda_ <= MaxVaried
    /\ pc = "evaluate"
    /\ gen = 0
    /\ ranked = 0
    /\ heap \in [1..MU -> {NewIndividual(g[1], g[2]) : g \in Genomes}]
    /\ pop = [i \in 1..MU |-> i]
    /\ offspring = <<>>
    /\ hof = <<>>
    /\ frame = NoFrame

Objects(ids) == [i \in 1..Len(ids) |-> heap[ids[i]]]

Ids(ids) == {ids[i] : i \in 1..Len(ids)}

\* the list whose invalid individuals eaMuPlusLambda evaluates: the
\* population before the loop, the offspring inside it
evaluated_list == IF gen = 0 THEN pop ELSE offspring

halloffame_population == pop

\* the argument of halloffame.update: the population before the loop, the
\* offspring inside it
halloffame_arg == IF gen = 0 THEN pop ELSE offspring

\* invalid_ind = [ind for ind in ... if not ind.fitness.valid], then
\* ind.fitness.values = toolbox.evaluate(ind)
Evaluate ==
    /\ pc = "evaluate"
    /\ heap' = [id \in 1..Len(heap) |->
                  IF id \in Ids(evaluated_list) /\ ~heap[id].valid
                  THEN [heap[id] EXCEPT !.valid = TRUE,
                                        !.values = evaluate_fitness(heap[id].genes)]
                  ELSE heap[id]]
    /\ frame' = NoFrame
    /\ pc' = "halloffame"
    /\ UNCHANGED <<MU, NGEN, lambda_, gen, ranked, pop, offspring, hof>>

\* halloffame.update(population) before the loop, halloffame.update(offspring)
\* inside it; range(1, ngen + 1) is entered after the first update
UpdateHallOfFame ==
    /\ pc = "halloffame"
    /\ hof' = hof_update(hof, Objects(halloffame_arg), 1)
    /\ IF gen = 0
       THEN IF NGEN >= 1
            THEN gen' = 1 /\ pc' = "vary"
            ELSE gen' = gen /\ pc' = "done"
       ELSE gen' = gen /\ pc' = "select"
    /\ UNCHANGED <<MU, NGEN, lambda_, ranked, heap, pop, offspring, frame>>

VarOrNext(off) == IF Len(off) = lambda_ THEN "evaluate" ELSE "vary"

\* varOr, op_choice < cxpb: two clones of random.sample(population, 2) are
\* mated, the first child loses its fitness and joins the offspring
VarOrCrossover ==
    /\ pc = "vary"
    /\ Len(offspring) < lambda_
    /\ IF Len(pop) < 2
       THEN \* random.sample raises ValueError, which leaves main
            /\ pc' = "error"
            /\ UNCHANGED <<heap, offspring, frame>>
       ELSE \E i, j \in 1..Len(pop) :
              /\ i # j
              /\ LET h1 == CloneHeap(heap, pop[i])
                     id1 == CloneId(heap, pop[i])
                     c2 == heap[pop[j]]
                     kids == crossover(h1[id1].genes, c2.genes)
                 IN  /\ heap' = [h1 EXCEPT ![id1] =
                                    del_fitness_values([@ EXCEPT !.genes = kids[1]])]
                     /\ offspring' = Append(offspring, id1)
                     /\ frame' = [op |-> "cx", parents |-> <<pop[i], pop[j]>>,
                                  ind1 |-> id1,
                                  ind2 |-> <<[c2 EXCEPT !.genes = kids[2]]>>]
              /\ pc' = VarOrNext(offspring')
    /\ UNCHANGED <<MU, NGEN, lambda_, gen, ranked, pop, hof>>

\* varOr, op_choice < cxpb + mutpb: a clone of random.choice(population) is
\* mutated, loses its fitness and joins the offspring
VarOrMutation ==
    /\ pc = "vary"
    /\ Len(offspring) < lambda_
    /\ \E i \in 1..Len(pop) :
         LET h1 == CloneHeap(heap, pop[i])
             id1 == CloneId(heap, pop[i])
         IN  \E g \in mutUniformInt(h1[id1].genes, 1, MAX_ATTRIBUTE_SIZE) :
               /\ heap' = [h1 EXCEPT ![id1] =
                              del_fitness_values([@ EXCEPT !.genes = g])]
               /\ offspring' = Append(offspring, id1)
               /\ frame' = [op |-> "mut", parents |-> <<pop[i]>>,
                            ind1 |-> id1, ind2 |-> <<>>]
    /\ pc' = VarOrNext(offspring')
    /\ UNCHANGED <<MU, NGEN, lambda_, gen, ranked, pop, hof>>

\* varOr, otherwise: random.choice(population) itself joins the offspring
VarOrReproduction ==
    /\ pc = "vary"
    /\ Len(offspring) < lambda_
    /\ \E i \in 1..Len(pop) :
         /\ offspring' = Append(offspring, pop[i])
         /\ frame' = [op |-> "rep", parents |-> <<pop[i]>>,
                      ind1 |-> pop[i], ind2 |-> <<>>]
    /\ pc' = VarOrNext(offspring')
    /\ UNCHANGED <<MU, NGEN, lambda_, gen, ranked, heap, pop, hof>>

RECURSIVE live_objects(_, _, _)
\* the distinct objects of a list, in order of first occurrence
live_objects(ids, i, acc) ==
    IF i > Len(ids) THEN acc
    ELSE live_objects(ids, i + 1,
             IF \E j \in 1..Len(acc) : acc[j] = ids[i] THEN acc
             ELSE Append(acc, ids[i]))

\* population[:] = chosen; the objects that are no longer referenced are
\* dropped and the rest renumbered in order of first occurrence
Repopulate(chosen, live) ==
    /\ heap' = [n \in 1..Len(live) |-> heap[live[n]]]
    /\ pop' = [i \in 1..Len(chosen) |->
                 CHOOSE n \in 1..Len(live) : live[n] = chosen[i]]

SelectFrom(chosen) == Repopulate(chosen, live_objects(chosen, 1, <<>>))

\* population[:] = toolbox.select(population + offspring, mu)
Select ==
    /\ pc = "select"
    /\ SelectFrom(selNSGA2(pop \o offspring,
                           [i \in 1..Len(pop \o offspring) |->
                               heap[(pop \o offspring)[i]].values],
                           MU))
    /\ offspring' = <<>>
    /\ ranked' = ranked + 1
    /\ IF gen < NGEN
       THEN gen' = gen + 1 /\ pc' = "vary"
       ELSE gen' = gen /\ pc' = "done"
    /\ UNCHANGED <<MU, NGEN, lambda_, hof, frame>>

Next ==
    \/ Evaluate
    \/ UpdateHallOfFame
    \/ VarOrCrossover
    \/ VarOrMutation
    \/ VarOrReproduction
    \/ Select

Spec == Init /\ [][Next]_vars

----------------------------------------------------------------------------
\* Properties

HofGenes == {hof[i].genes : i \in 1..Len(hof)}

InRange(genes) == \A c \in 1..2 : genes[c] \in 1..MAX_ATTRIBUTE_SIZE

\* C1: crossover swaps corresponding components: child 1 holds parent 2's
\* vector [r2, h2] and child 2 holds parent 1's vector [r1, h1].
C1_CrossoverSwaps ==
    frame.op = "cx" =>
        /\ heap[frame.ind1].genes = heap[frame.parents[2]].genes
        /\ frame.ind2[1].genes = heap[frame.parents[1]].genes

\* C2: after initialization and after every generation the population holds
\* exactly population_size individuals; the offspring list never exceeds lambda.
C2_PopulationSize ==
    /\ Len(pop) = MU
    /\ Len(offspring) <= lambda_

\* a run whose selections have truncated the pool of mu + lambda to mu several
\* times and have kept two distinct objects
C2_Witness ==
    /\ pc = "done"
    /\ MU = 2
    /\ ranked >= 2
    /\ Len(heap) = 2

\* C3: both components of every individual of the population, the offspring
\* pool, the crossover's second child and the archive lie in [1, 25].
C3_BoundsClosure ==
    /\ \A id \in 1..Len(heap) : InRange(heap[id].genes)
    /\ \A i \in 1..Len(hof) : InRange(hof[i].genes)
    /\ \A i \in 1..Len(frame.ind2) : InRange(frame.ind2[i].genes)

\* a mutation of a later generation that drew the upper bound for the radius
C3_Witness ==
    /\ frame.op = "mut"
    /\ ranked >= 1
    /\ heap[frame.ind1].genes[1] = MAX_ATTRIBUTE_SIZE
    /\ heap[frame.parents[1]].genes[1] # MAX_ATTRIBUTE_SIZE

\* C4: the archive never holds two members one of which dominates the other.
C4_ArchiveNonDominated ==
    \A i, j \in 1..Len(hof) : ~dominates(hof[i].values, hof[j].values)

\* an offspring that dominates a member of the population has been taken into
\* the archive
C4_Witness ==
    /\ pc = "select"
    /\ \E o \in Ids(offspring), p \in Ids(pop) :
         /\ dominates(heap[o].values, heap[p].values)
         /\ heap[o].genes \in HofGenes

\* C5: an archive update leaves no member that a member of the previous
\* archive dominates, and drops a member only if an individual offered in
\* that update dominates it.
C5_ArchiveMonotone ==
    [][/\ \A i \in 1..Len(hof'), j \in 1..Len(hof) :
            ~dominates(hof[j].values, hof'[i].values)
       /\ \A j \in 1..Len(hof) :
            (\A i \in 1..Len(hof') : hof'[i] # hof[j]) =>
                \E k \in 1..Len(halloffame_arg) :
                    dominates(heap[halloffame_arg[k]].values, hof[j].values)]_vars

\* the first generation's update has dropped an archive member: a member of
\* the initial population that no other member dominates is no longer archived
C5_Witness ==
    /\ pc = "select"
    /\ gen = 1
    /\ \E p \in Ids(pop) :
         /\ \A q \in Ids(pop) : ~dominates(heap[q].values, heap[p].values)
         /\ heap[p].genes \notin HofGenes

\* C6: main ends after exactly max_generations generational iterations and
\* on no other path.
C6_TerminatesAfterBudget ==
    /\ pc # "error"
    /\ ranked <= NGEN
    /\ pc = "done" => (gen = NGEN /\ ranked = NGEN)

\* C7: a cached objective vector is the fitness of the current decision
\* vector, in the population, the offspring and the archive; the lists that
\* are offered to the archive and ranked carry valid fitnesses only.
C7_NoStaleFitness ==
    /\ \A id \in 1..Len(heap) :
         heap[id].valid => heap[id].values = evaluate_fitness(heap[id].genes)
    /\ \A i \in 1..Len(hof) : hof[i].values = evaluate_fitness(hof[i].genes)
    /\ pc = "halloffame" => \A id \in Ids(halloffame_arg) : heap[id].valid
    /\ pc = "select" => \A id \in Ids(pop \o offspring) : heap[id].valid

\* a crossover child whose vector differs from the parent it was cloned from
\* waits, invalidated, for its evaluation
C7_Witness ==
    /\ pc = "evaluate"
    /\ frame.op = "cx"
    /\ ~heap[frame.ind1].valid
    /\ heap[frame.parents[1]].valid
    /\ heap[frame.ind1].genes # heap[frame.parents[1]].genes

\* C8: a variation step leaves the population list and the decision vector
\* and cached fitness of every object in it unchanged.
C8_ParentsUnchanged ==
    [][pc = "vary" =>
         /\ pop' = pop
         /\ \A i \in 1..Len(pop) : heap'[pop[i]] = heap[pop[i]]]_vars

\* crossover has written both of its arguments
C8_Witness ==
    /\ frame.op = "cx"
    /\ heap[frame.ind1].genes # heap[frame.parents[1]].genes
    /\ frame.ind2[1].genes # heap[frame.parents[2]].genes

ArchiveUpdateStep == pc = "halloffame" /\ pc' # "halloffame"

\* C9 as claimed: inside the loop the archive is updated only after the
\* generation's ranking and selection has completed.
C9_ArchiveAfterSelect ==
    [][(ArchiveUpdateStep /\ gen >= 1) => ranked = gen]_vars

\* C9 amended: inside the loop the archive is updated after the offspring are
\* evaluated and before the generation's selection, and it is offered the
\* whole offspring list: every offspring is archived or dominated by an
\* archive member, and every new archive member is an offspring.
C9_ArchiveBeforeSelect ==
    [][(ArchiveUpdateStep /\ gen >= 1) =>
         /\ ranked = gen - 1
         /\ pc' = "select"
         /\ \A o \in Ids(offspring) :
              /\ heap[o].valid
              /\ \/ heap[o].genes \in {hof'[i].genes : i \in 1..Len(hof')}
                 \/ \E i \in 1..Len(hof') : dominates(hof'[i].values, heap[o].values)
         /\ \A i \in 1..Len(hof') :
              \/ \E j \in 1..Len(hof) : hof[j] = hof'[i]
              \/ \E o \in Ids(offspring) : heap[o].genes = hof'[i].genes]_vars

\* the archive holds an offspring of the generation that is still to be ranked
C9_Witness ==
    /\ pc = "select"
    /\ ranked = gen - 1
    /\ \E o \in Ids(offspring) :
         /\ heap[o].genes \in HofGenes
         /\ \A p \in Ids(pop) : heap[p].genes # heap[o].genes

\* a step that runs the mutation pass on the individual crossover has produced
MutationPassOnCrossed ==
    /\ Next
    /\ frame'.op = "mut"
    /\ frame.ind1 \in Ids(offspring')
    /\ heap'[frame.ind1].genes
           \in mutUniformInt(heap[frame.ind1].genes, 1, MAX_ATTRIBUTE_SIZE)
    /\ frame'.ind1 = frame.ind1

\* C10 as claimed: while the generation's variation is running, an offspring
\* that crossover has produced is then subject to the mutation pass.
C10_CrossedThenMutated ==
    (pc = "vary" /\ frame.op = "cx") => ENABLED MutationPassOnCrossed

\* C10 amended: every variation step adds one offspring by exactly one of
\* crossover (the first child of two cloned parents), mutation (of a clone of
\* one parent) or reproduction (a parent itself); an offspring already in the
\* list is not altered.
C10_OneOperatorPerOffspring ==
    [][(pc = "vary" /\ pc' # "error") =>
         /\ offspring' = Append(offspring, offspring'[Len(offspring')])
         /\ \A k \in 1..Len(offspring) : heap'[offspring[k]] = heap[offspring[k]]
         /\ LET last == offspring'[Len(offspring')]
                c == heap'[last]
            IN  \/ /\ frame'.op = "cx"
                   /\ last \notin Ids(pop)
                   /\ ~c.valid
                   /\ \E i, j \in 1..Len(pop) :
                        i # j /\ c.genes = heap[pop[j]].genes
                \/ /\ frame'.op = "mut"
                   /\ last \notin Ids(pop)
                   /\ ~c.valid
                   /\ \E i \in 1..Len(pop) :
                        c.genes \in mutUniformInt(heap[pop[i]].genes, 1,
                                                  MAX_ATTRIBUTE_SIZE)
                \/ /\ frame'.op = "rep"
                   /\ last \in Ids(pop)
                   /\ heap' = heap]_vars

\* a later generation's offspring that mutation alone has produced
C10_Witness ==
    /\ frame.op = "mut"
    /\ ranked >= 1
    /\ heap[frame.ind1].genes # heap[frame.parents[1]].genes
    /\ heap[frame.ind1].genes[2] = heap[frame.parents[1]].genes[2]

====
